---- MODULE Spec2Model ----
(***************************************************************************)
(* A model of the three chess programs of the repository:                  *)
(*   chess.py              - click-to-move board, no rule enforcement      *)
(*   chess_rules_light.py  - click-to-move board with basic piece movement *)
(*   chess_engine.py       - board driven by the python-chess library,     *)
(*                           with promotion picker, end-of-game prompt,    *)
(*                           results table and scoreboard overlay          *)
(* The variable `variant` says which program is running.  chess.py and     *)
(* chess_rules_light.py keep their state in board / selected / turn; the   *)
(* state of chess_engine.py is chess_board, selected_sq, legal_targets,    *)
(* last_move, game_over, left_banner, right_banner, show_scoreboard and    *)
(* last_close_rect.  Python's None is the empty tuple, an optional value   *)
(* x is <<x>> or the tuple itself when it already is one.                  *)
(***************************************************************************)
EXTENDS Integers, Sequences, FiniteSets, TLC

VARIABLES
  variant,          \* "naive" | "light" | "engine" | "rules" | "mouse"
  pc,               \* "main" | "promotion" | "save" | "exited" | "crashed" |
                    \* "probed"
  board,            \* chess.py, chess_rules_light.py: 8x8 array of codes
  selected,         \* chess.py, chess_rules_light.py: None or <<r, c>>
  turn,             \* chess.py, chess_rules_light.py: "w" or "b"
  nmoves,           \* history: moves applied since program start
  last_mover,       \* history: side of the piece moved by the last applied move
  attempt,          \* history: what the event handled last did with a move
                    \* attempt, "applied" | "rejected", "-" if it made none
  mouse,            \* a mouse position and what each program maps it to
  accepted,         \* the set of <<src, dst>> that legal_move_basic accepts on
                    \* `board`, once pc = "probed"
  chess_board,      \* chess_engine.py: board, the chess.Board
  selected_sq,      \* chess_engine.py: None or <<square>>
  legal_targets,    \* chess_engine.py: set of squares
  last_move,        \* chess_engine.py: None or <<move>>
  game_over,        \* chess_engine.py
  left_banner,      \* chess_engine.py
  right_banner,     \* chess_engine.py
  show_scoreboard,  \* chess_engine.py
  last_close_rect,  \* chess_engine.py: None or the rectangle <<x, y, w, h>>
  pending,          \* attempt_move waiting in choose_promotion: None or
                    \* [src_sq, dst_sq, color]
  prompt,           \* prompt_save_result waiting for input: None or
                    \* [result_label, winner_color]
  results,          \* the rows of the results table, in insertion order
  game              \* history of the game on the board, since the program
                    \* started or the board was last reset: the moves applied
                    \* (plies), the save prompts opened, the rows inserted

gridvars == <<board, selected, turn, nmoves, last_mover>>
enginevars == <<chess_board, selected_sq, legal_targets, last_move, game_over,
                left_banner, right_banner, show_scoreboard, last_close_rect,
                pending, prompt, results, game>>
vars == <<variant, pc, board, selected, turn, nmoves, last_mover, attempt, mouse, accepted,
          chess_board, selected_sq, legal_targets, last_move, game_over,
          left_banner, right_banner, show_scoreboard, last_close_rect,
          pending, prompt, results, game>>

None == <<>>

-----------------------------------------------------------------------------
(* Bounds of the exploration *)

\* applied moves per run of chess.py / chess_rules_light.py
MaxMoves == 5
\* pieces added around the probed piece on a test board
MaxExtra == 2
\* applied moves per run of chess_engine.py
MaxPlies == 4

-----------------------------------------------------------------------------
(* Config *)

BOARD_SIZE == 8
SQ == 72
PADDING == 18
GAP_BETWEEN == 28
TOP_BANNER == 42
COORD_PAD == 18
\* chess_engine.py
BOTTOM_BANNER == 84

\* chess.py, chess_rules_light.py
GRID_W_BOARD == BOARD_SIZE * SQ
GRID_H_BOARD == BOARD_SIZE * SQ
GRID_LEFT_ANCHOR == <<PADDING, TOP_BANNER>>
GRID_RIGHT_ANCHOR == <<PADDING + GRID_W_BOARD + GAP_BETWEEN, TOP_BANNER>>

\* chess_engine.py
W_BOARD == BOARD_SIZE * SQ + 2 * COORD_PAD
H_BOARD == BOARD_SIZE * SQ + 2 * COORD_PAD
LEFT_ANCHOR == <<PADDING, TOP_BANNER>>
RIGHT_ANCHOR == <<PADDING + W_BOARD + GAP_BETWEEN, TOP_BANNER>>
WIN_W == (PADDING * 2) + W_BOARD + GAP_BETWEEN + W_BOARD
WIN_H == TOP_BANNER + H_BOARD + BOTTOM_BANNER

-----------------------------------------------------------------------------
(* Board representation of chess.py and chess_rules_light.py: codes such   *)
(* as "wp" are the pairs <<"w", "p">>, an empty square is None.            *)

Rows == 0 .. 7
Cells == Rows \X Rows

Code(s, k) == <<s, k>>

BackRank(s) ==
  [c \in Rows |->
     Code(s, CASE c \in {0, 7} -> "r" [] c \in {1, 6} -> "n"
              [] c \in {2, 5} -> "b" [] c = 3 -> "q" [] OTHER -> "k")]

start_position ==
  [r \in Rows |->
     CASE r = 0 -> BackRank("b")
       [] r = 1 -> [c \in Rows |-> Code("b", "p")]
       [] r = 6 -> [c \in Rows |-> Code("w", "p")]
       [] r = 7 -> BackRank("w")
       [] OTHER -> [c \in Rows |-> None]]

side_of(code) == IF code # None THEN code[1] ELSE None

kind_of(code) == IF code # None THEN code[2] ELSE None

in_bounds(r, c) == 0 <= r /\ r < 8 /\ 0 <= c /\ c < 8

Abs(x) == IF x < 0 THEN 0 - x ELSE x

Max2(a, b) == IF a >= b THEN a ELSE b

Sign(d) == IF d = 0 THEN 0 ELSE IF d > 0 THEN 1 ELSE 0 - 1

\* The squares the loop of is_path_clear visits: it starts one step after
\* the source and walks until it is on the destination.  It is called only
\* for destinations on a row, column or diagonal of the source, where
\* the walk ends after max(|dr|, |dc|) - 1 squares.
PathSquares(r0, c0, r1, c1) ==
  {<<r0 + k * Sign(r1 - r0), c0 + k * Sign(c1 - c0)>> :
     k \in 1 .. (Max2(Abs(r1 - r0), Abs(c1 - c0)) - 1)}

\* is_path_clear without its loop
is_path_clear_unchecked(b, r0, c0, r1, c1) == TRUE

\* is_path_clear with a loop that starts two steps after the source
is_path_clear_late_start(b, r0, c0, r1, c1) ==
  \A p \in PathSquares(r0, c0, r1, c1) \ {<<r0 + Sign(r1 - r0), c0 + Sign(c1 - c0)>>} :
     b[p[1]][p[2]] = None

is_path_clear(b, r0, c0, r1, c1) ==
  \A p \in PathSquares(r0, c0, r1, c1) : b[p[1]][p[2]] = None

\* legal_move_basic with a two-square pawn move that does not look at the
\* square it passes over
legal_move_basic_jumping_pawn(b, src, dst) ==
  LET sr == src[1]
      sc == src[2]
      dr == dst[1]
      dc == dst[2]
  IN
  IF ~in_bounds(dr, dc) THEN FALSE
  ELSE
  LET piece == b[sr][sc] IN
  IF piece = None THEN FALSE
  ELSE
  LET us == side_of(piece)
      them_piece == b[dr][dc]
  IN
  IF them_piece # None /\ side_of(them_piece) = us THEN FALSE
  ELSE
  LET k == kind_of(piece)
      rr == dr - sr
      cc == dc - sc
      abs_r == Abs(rr)
      abs_c == Abs(cc)
      dir_ == IF us = "w" THEN 0 - 1 ELSE 1
      start_row == IF us = "w" THEN 6 ELSE 1
  IN
  CASE k = "n" -> <<abs_r, abs_c>> \in {<<1, 2>>, <<2, 1>>}
    [] k = "k" -> Max2(abs_r, abs_c) = 1
    [] k = "r" -> IF rr # 0 /\ cc # 0 THEN FALSE
                  ELSE is_path_clear(b, sr, sc, dr, dc)
    [] k = "b" -> IF abs_r # abs_c THEN FALSE
                  ELSE is_path_clear(b, sr, sc, dr, dc)
    [] k = "q" -> IF rr = 0 \/ cc = 0 \/ abs_r = abs_c
                  THEN is_path_clear(b, sr, sc, dr, dc)
                  ELSE FALSE
    [] k = "p" ->
         IF cc = 0
         THEN IF rr = dir_ /\ b[dr][dc] = None THEN TRUE
              ELSE IF sr = start_row /\ rr = 2 * dir_ /\ b[dr][dc] = None
                   THEN TRUE
                   ELSE FALSE
         ELSE IF abs_c = 1 /\ rr = dir_ THEN them_piece # None
              ELSE FALSE
    [] OTHER -> FALSE

\* chess_rules_light.py: basic piece movement (no checks, no castling, no
\* en passant)
legal_move_basic(b, src, dst) ==
  LET sr == src[1]
      sc == src[2]
      dr == dst[1]
      dc == dst[2]
  IN
  IF ~in_bounds(dr, dc) THEN FALSE
  ELSE
  LET piece == b[sr][sc] IN
  IF piece = None THEN FALSE
  ELSE
  LET us == side_of(piece)
      them_piece == b[dr][dc]
  IN
  IF them_piece # None /\ side_of(them_piece) = us THEN FALSE
  ELSE
  LET k == kind_of(piece)
      rr == dr - sr
      cc == dc - sc
      abs_r == Abs(rr)
      abs_c == Abs(cc)
      dir_ == IF us = "w" THEN 0 - 1 ELSE 1
      start_row == IF us = "w" THEN 6 ELSE 1
  IN
  CASE k = "n" -> <<abs_r, abs_c>> \in {<<1, 2>>, <<2, 1>>}
    [] k = "k" -> Max2(abs_r, abs_c) = 1
    [] k = "r" -> IF rr # 0 /\ cc # 0 THEN FALSE
                  ELSE is_path_clear(b, sr, sc, dr, dc)
    [] k = "b" -> IF abs_r # abs_c THEN FALSE
                  ELSE is_path_clear(b, sr, sc, dr, dc)
    [] k = "q" -> IF rr = 0 \/ cc = 0 \/ abs_r = abs_c
                  THEN is_path_clear(b, sr, sc, dr, dc)
                  ELSE FALSE
    [] k = "p" ->
         IF cc = 0
         THEN IF rr = dir_ /\ b[dr][dc] = None THEN TRUE
              ELSE IF sr = start_row /\ rr = 2 * dir_
                      /\ b[sr + dir_][dc] = None /\ b[dr][dc] = None
                   THEN TRUE
                   ELSE FALSE
         ELSE IF abs_c = 1 /\ rr = dir_ THEN them_piece # None
              ELSE FALSE
    [] OTHER -> FALSE

\* chess.py: the click-to-square mapping; None outside both boards
naive_board_from_mouse(pos) ==
  LET mx == pos[1]
      my == pos[2]
      lx == GRID_LEFT_ANCHOR[1]
      ly == GRID_LEFT_ANCHOR[2]
      rx == GRID_RIGHT_ANCHOR[1]
      ry == GRID_RIGHT_ANCHOR[2]
  IN
  IF lx <= mx /\ mx < lx + GRID_W_BOARD /\ ly <= my /\ my < ly + GRID_H_BOARD
  THEN <<(my - ly) \div SQ, (mx - lx) \div SQ>>
  ELSE IF rx <= mx /\ mx < rx + GRID_W_BOARD /\ ry <= my /\ my < ry + GRID_H_BOARD
  THEN <<BOARD_SIZE - 1 - ((my - ry) \div SQ), BOARD_SIZE - 1 - ((mx - rx) \div SQ)>>
  ELSE None

\* chess_rules_light.py: the canonical square and the panel that was clicked
board_from_mouse(pos) ==
  LET mx == pos[1]
      my == pos[2]
      lx == GRID_LEFT_ANCHOR[1]
      ly == GRID_LEFT_ANCHOR[2]
      rx == GRID_RIGHT_ANCHOR[1]
      ry == GRID_RIGHT_ANCHOR[2]
  IN
  IF lx <= mx /\ mx < lx + GRID_W_BOARD /\ ly <= my /\ my < ly + GRID_H_BOARD
  THEN [sq |-> <<(my - ly) \div SQ, (mx - lx) \div SQ>>, which |-> "left"]
  ELSE IF rx <= mx /\ mx < rx + GRID_W_BOARD /\ ry <= my /\ my < ry + GRID_H_BOARD
  THEN [sq |-> <<7 - ((my - ry) \div SQ), 7 - ((mx - rx) \div SQ)>>, which |-> "right"]
  ELSE [sq |-> None, which |-> None]

\* try_move that refuses to take a piece of the side to move, after it
\* has written the board
try_move_late_check(b, t, src, dst) ==
  LET piece == b[src[1]][src[2]] IN
  IF piece = None \/ src = dst
  THEN [ok |-> FALSE, board |-> b, turn |-> t]
  ELSE IF side_of(b[dst[1]][dst[2]]) = t
  THEN [ok |-> FALSE,
        board |-> [[b EXCEPT ![dst[1]][dst[2]] = piece] EXCEPT ![src[1]][src[2]] = None],
        turn |-> t]
  ELSE [ok |-> TRUE,
        board |-> [[b EXCEPT ![dst[1]][dst[2]] = piece] EXCEPT ![src[1]][src[2]] = None],
        turn |-> IF t = "w" THEN "b" ELSE "w"]

\* try_move that leaves the turn as it is
try_move_same_turn(b, t, src, dst) ==
  LET piece == b[src[1]][src[2]] IN
  IF piece = None \/ side_of(piece) # t \/ src = dst
  THEN [ok |-> FALSE, board |-> b, turn |-> t]
  ELSE [ok |-> TRUE,
        board |-> [[b EXCEPT ![dst[1]][dst[2]] = piece] EXCEPT ![src[1]][src[2]] = None],
        turn |-> t]

\* try_move that does not empty the source square
try_move_copy(b, t, src, dst) ==
  LET piece == b[src[1]][src[2]] IN
  IF piece = None \/ side_of(piece) # t \/ src = dst
  THEN [ok |-> FALSE, board |-> b, turn |-> t]
  ELSE [ok |-> TRUE,
        board |-> [b EXCEPT ![dst[1]][dst[2]] = piece],
        turn |-> IF t = "w" THEN "b" ELSE "w"]

\* chess.py: the move is made unless the source is empty, not of the side
\* to move, or the destination itself.  Returns the result with the new
\* board and turn.
try_move(b, t, src, dst) ==
  LET piece == b[src[1]][src[2]] IN
  IF piece = None \/ side_of(piece) # t \/ src = dst
  THEN [ok |-> FALSE, board |-> b, turn |-> t]
  ELSE [ok |-> TRUE,
        board |-> [[b EXCEPT ![dst[1]][dst[2]] = piece] EXCEPT ![src[1]][src[2]] = None],
        turn |-> IF t = "w" THEN "b" ELSE "w"]

-----------------------------------------------------------------------------
(* chess_engine.py: what the program uses of the python-chess library.     *)
(* A square is rank * 8 + file (a1 = 0, h8 = 63); a piece is the pair      *)
(* <<piece_type, color>> with color TRUE for White; a move is the record   *)
(* [from_square, to_square, promotion]; a chess.Board is the record        *)
(* [pieces, turn, castling_rights, ep_square, move_stack], where           *)
(* castling_rights is the set of corner squares whose rook may still       *)
(* castle and move_stack the length of the list of pushed moves (the       *)
(* program reads nothing else of it).                                      *)

PAWN == 1
KNIGHT == 2
BISHOP == 3
ROOK == 4
QUEEN == 5
KING == 6
WHITE == TRUE
BLACK == FALSE

SQUARES == 0 .. 63

\* chess.square(file_index, rank_index)
square(file_index, rank_index) == rank_index * 8 + file_index

\* chess.square_file(sq) is sq & 7, chess.square_rank(sq) is sq >> 3
square_file(sq) == sq % 8

square_rank(sq) == sq \div 8

Piece(piece_type, color) == <<piece_type, color>>

Move(from_square, to_square, promotion) ==
  [from_square |-> from_square, to_square |-> to_square, promotion |-> promotion]

\* chess.Board(): the standard starting position
StartPieces ==
  [sq \in SQUARES |->
     LET f == square_file(sq)
         r == square_rank(sq)
         back == CASE f \in {0, 7} -> ROOK [] f \in {1, 6} -> KNIGHT
                   [] f \in {2, 5} -> BISHOP [] f = 3 -> QUEEN [] OTHER -> KING
     IN CASE r = 0 -> Piece(back, WHITE)
          [] r = 1 -> Piece(PAWN, WHITE)
          [] r = 6 -> Piece(PAWN, BLACK)
          [] r = 7 -> Piece(back, BLACK)
          [] OTHER -> None]

Board ==
  [pieces |-> StartPieces, turn |-> WHITE, castling_rights |-> {0, 7, 56, 63},
   ep_square |-> None, move_stack |-> 0]

\* Board.piece_at(sq) indexes the 64-entry list BB_SQUARES with sq: an index
\* in -64 .. -1 counts from the end of the list, any other index outside
\* 0 .. 63 raises IndexError.
piece_at_raises(sq) == sq > 63 \/ sq < 0 - 64

piece_at(b, sq) == b.pieces[sq % 64]

\* the piece on (file, rank), None off the board
PieceOn(pieces, f, r) == IF in_bounds(r, f) THEN pieces[square(f, r)] ELSE None

KnightSteps ==
  {<<1, 2>>, <<2, 1>>, <<2, 0 - 1>>, <<1, 0 - 2>>,
   <<0 - 1, 0 - 2>>, <<0 - 2, 0 - 1>>, <<0 - 2, 1>>, <<0 - 1, 2>>}

RookDirs == {<<1, 0>>, <<0 - 1, 0>>, <<0, 1>>, <<0, 0 - 1>>}

BishopDirs == {<<1, 1>>, <<1, 0 - 1>>, <<0 - 1, 1>>, <<0 - 1, 0 - 1>>}

KingSteps == RookDirs \cup BishopDirs

\* the first k - 1 squares from (f, r) in direction d are empty
RayClear(pieces, f, r, d, k) ==
  \A j \in 1 .. (k - 1) : PieceOn(pieces, f + j * d[1], r + j * d[2]) = None

\* Board.is_attacked_by(color, sq)
is_attacked_by(pieces, color, sq) ==
  LET f == square_file(sq)
      r == square_rank(sq)
      pr == IF color = WHITE THEN r - 1 ELSE r + 1
  IN
  \/ PieceOn(pieces, f - 1, pr) = Piece(PAWN, color)
  \/ PieceOn(pieces, f + 1, pr) = Piece(PAWN, color)
  \/ \E d \in KnightSteps : PieceOn(pieces, f + d[1], r + d[2]) = Piece(KNIGHT, color)
  \/ \E d \in KingSteps : PieceOn(pieces, f + d[1], r + d[2]) = Piece(KING, color)
  \/ \E d \in RookDirs : \E k \in 1 .. 7 :
       /\ PieceOn(pieces, f + k * d[1], r + k * d[2])
            \in {Piece(ROOK, color), Piece(QUEEN, color)}
       /\ RayClear(pieces, f, r, d, k)
  \/ \E d \in BishopDirs : \E k \in 1 .. 7 :
       /\ PieceOn(pieces, f + k * d[1], r + k * d[2])
            \in {Piece(BISHOP, color), Piece(QUEEN, color)}
       /\ RayClear(pieces, f, r, d, k)

\* Board.king(color)
king(pieces, color) == CHOOSE sq \in SQUARES : pieces[sq] = Piece(KING, color)

\* Board.push(move) for a legal move
push(b, move) ==
  LET from == move.from_square
      to == move.to_square
      piece == b.pieces[from]
      piece_type == piece[1]
      rank == square_rank(from)
      diff == to - from
      castling == piece_type = KING /\ Abs(square_file(to) - square_file(from)) = 2
      en_passant == /\ piece_type = PAWN
                    /\ b.ep_square = <<to>>
                    /\ Abs(diff) \in {7, 9}
                    /\ b.pieces[to] = None
      down == IF b.turn = WHITE THEN 0 - 8 ELSE 8
      placed == IF move.promotion # None THEN Piece(move.promotion[1], b.turn) ELSE piece
      moved == [b.pieces EXCEPT ![from] = None, ![to] = placed]
      pieces1 ==
        IF en_passant THEN [moved EXCEPT ![to + down] = None]
        ELSE IF castling /\ square_file(to) = 6
        THEN [moved EXCEPT ![square(7, rank)] = None,
                           ![square(5, rank)] = Piece(ROOK, b.turn)]
        ELSE IF castling
        THEN [moved EXCEPT ![square(0, rank)] = None,
                           ![square(3, rank)] = Piece(ROOK, b.turn)]
        ELSE moved
      own_rank == IF b.turn = WHITE THEN {0, 7} ELSE {56, 63}
  IN
  [pieces |-> pieces1,
   turn |-> ~b.turn,
   castling_rights |->
     (b.castling_rights \ {from, to}) \ (IF piece_type = KING THEN own_rank ELSE {}),
   ep_square |->
     IF piece_type = PAWN /\ diff = 16 /\ rank = 1 THEN <<from + 8>>
     ELSE IF piece_type = PAWN /\ diff = 0 - 16 /\ rank = 6 THEN <<from - 8>>
     ELSE None,
   move_stack |-> b.move_stack + 1]

PromotionTypes == {QUEEN, ROOK, BISHOP, KNIGHT}

\* Board.generate_pseudo_legal_moves, for the moves that start on `from`
PawnMoves(b, from) ==
  LET f == square_file(from)
      r == square_rank(from)
      up == IF b.turn = WHITE THEN 1 ELSE 0 - 1
      home == IF b.turn = WHITE THEN 1 ELSE 6
      last == IF b.turn = WHITE THEN 7 ELSE 0
      ep_rank == IF b.turn = WHITE THEN 4 ELSE 3
      single == IF in_bounds(r + up, f) /\ PieceOn(b.pieces, f, r + up) = None
                THEN {square(f, r + up)} ELSE {}
      double == IF r = home /\ single # {} /\ PieceOn(b.pieces, f, r + 2 * up) = None
                THEN {square(f, r + 2 * up)} ELSE {}
      captures ==
        {square(f + d, r + up) : d \in {df \in {0 - 1, 1} :
           /\ in_bounds(r + up, f + df)
           /\ \/ /\ PieceOn(b.pieces, f + df, r + up) # None
                 /\ PieceOn(b.pieces, f + df, r + up)[2] # b.turn
              \/ /\ b.ep_square = <<square(f + df, r + up)>>
                 /\ PieceOn(b.pieces, f + df, r + up) = None
                 /\ r = ep_rank}}
      targets == single \cup double \cup captures
  IN
  {Move(from, to, None) : to \in {t \in targets : square_rank(t) # last}}
    \cup {Move(from, to, <<pt>>) :
            to \in {t \in targets : square_rank(t) = last}, pt \in PromotionTypes}

StepMoves(b, from, steps) ==
  LET f == square_file(from)
      r == square_rank(from)
  IN
  {Move(from, square(f + d[1], r + d[2]), None) :
     d \in {e \in steps :
              /\ in_bounds(r + e[2], f + e[1])
              /\ \/ PieceOn(b.pieces, f + e[1], r + e[2]) = None
                 \/ PieceOn(b.pieces, f + e[1], r + e[2])[2] # b.turn}}

SlideMoves(b, from, dirs) ==
  LET f == square_file(from)
      r == square_rank(from)
  IN
  UNION {{Move(from, square(f + k * d[1], r + k * d[2]), None) :
            k \in {j \in 1 .. 7 :
                     /\ in_bounds(r + j * d[2], f + j * d[1])
                     /\ RayClear(b.pieces, f, r, d, j)
                     /\ \/ PieceOn(b.pieces, f + j * d[1], r + j * d[2]) = None
                        \/ PieceOn(b.pieces, f + j * d[1], r + j * d[2])[2] # b.turn}} :
         d \in dirs}

\* Board.generate_castling_moves: the king on its home square moves two
\* files towards a rook that still has its right; the squares between them
\* are empty and the king's square, the square it crosses and the square it
\* lands on are not attacked.
CastlingMoves(b, from) ==
  LET home == IF b.turn = WHITE THEN 4 ELSE 60
      rank == square_rank(home)
      free(files) == \A f \in files : b.pieces[square(f, rank)] = None
      safe(files) == \A f \in files : ~is_attacked_by(b.pieces, ~b.turn, square(f, rank))
      can(corner) == /\ square(corner, rank) \in b.castling_rights
                     /\ b.pieces[square(corner, rank)] = Piece(ROOK, b.turn)
  IN
  IF from # home \/ b.pieces[home] # Piece(KING, b.turn) THEN {}
  ELSE (IF can(7) /\ free({5, 6}) /\ safe({4, 5, 6})
        THEN {Move(home, square(6, rank), None)} ELSE {})
       \cup
       (IF can(0) /\ free({1, 2, 3}) /\ safe({4, 3, 2})
        THEN {Move(home, square(2, rank), None)} ELSE {})

PseudoLegalFrom(b, from) ==
  LET piece == b.pieces[from] IN
  IF piece = None THEN {}
  ELSE IF piece[2] # b.turn THEN {}
  ELSE CASE piece[1] = PAWN -> PawnMoves(b, from)
         [] piece[1] = KNIGHT -> StepMoves(b, from, KnightSteps)
         [] piece[1] = BISHOP -> SlideMoves(b, from, BishopDirs)
         [] piece[1] = ROOK -> SlideMoves(b, from, RookDirs)
         [] piece[1] = QUEEN -> SlideMoves(b, from, RookDirs \cup BishopDirs)
         [] OTHER -> StepMoves(b, from, KingSteps) \cup CastlingMoves(b, from)

\* Board.is_into_check(move): the mover's king is attacked after the move
is_into_check(b, move) ==
  LET after == push(b, move) IN
  is_attacked_by(after.pieces, after.turn, king(after.pieces, b.turn))

\* the members of board.legal_moves that start on `from`
LegalFrom(b, from) == {m \in PseudoLegalFrom(b, from) : ~is_into_check(b, m)}

\* board.legal_moves
legal_moves(b) == UNION {LegalFrom(b, from) : from \in SQUARES}

\* move in board.legal_moves
is_legal(b, move) ==
  move.from_square \in SQUARES /\ move \in LegalFrom(b, move.from_square)

\* Board.is_check()
is_check(b) == is_attacked_by(b.pieces, ~b.turn, king(b.pieces, b.turn))

AnyLegalMove(b) == \E from \in SQUARES : LegalFrom(b, from) # {}

\* Board.is_checkmate()
is_checkmate(b) == is_check(b) /\ ~AnyLegalMove(b)

\* Board.is_stalemate()
is_stalemate(b) == ~is_check(b) /\ ~AnyLegalMove(b)

-----------------------------------------------------------------------------
(* chess_engine.py: helpers *)

square_from_rc_white_view(r, c) == square(c, 7 - r)

square_from_rc_black_view(r, c) == square(7 - c, r)

rc_from_square_for_white_view(sq) == <<7 - square_rank(sq), square_file(sq)>>

rc_from_square_for_black_view(sq) == <<square_rank(sq), 7 - square_file(sq)>>

\* the square under the mouse, None outside both panels
board_click_to_square(pos) ==
  LET mx == pos[1]
      my == pos[2]
      lx == LEFT_ANCHOR[1]
      ly == LEFT_ANCHOR[2]
      rx == RIGHT_ANCHOR[1]
      ry == RIGHT_ANCHOR[2]
  IN
  IF lx <= mx /\ mx < lx + W_BOARD /\ ly <= my /\ my < ly + H_BOARD
  THEN <<square_from_rc_white_view((my - ly - COORD_PAD) \div SQ,
                                   (mx - lx - COORD_PAD) \div SQ)>>
  ELSE IF rx <= mx /\ mx < rx + W_BOARD /\ ry <= my /\ my < ry + H_BOARD
  THEN <<square_from_rc_black_view((my - ry - COORD_PAD) \div SQ,
                                   (mx - rx - COORD_PAD) \div SQ)>>
  ELSE None

\* the value update_legal_targets() gives legal_targets: the destinations of
\* the legal moves whose from_square is selected_sq
update_legal_targets(b, sel) ==
  IF sel = None THEN {}
  ELSE IF sel[1] \notin SQUARES THEN {}
  ELSE {mv.to_square : mv \in LegalFrom(b, sel[1])}

\* pygame.Rect.collidepoint
collidepoint(rect, pos) ==
  /\ rect[1] <= pos[1] /\ pos[1] < rect[1] + rect[3]
  /\ rect[2] <= pos[2] /\ pos[2] < rect[2] + rect[4]

\* draw_scoreboard: the close button, Rect(rect.right - 46, rect.y + 10, 36, 28)
\* of the panel Rect(12, 8, WIN_W - 24, panel_h)
close_rect == <<(12 + WIN_W - 24) - 46, 8 + 10, 36, 28>>

\* choose_promotion: the four buttons, in the order of piece_types
PromotionButton(i) ==
  LET panel_w == 420
      panel_h == 140
      btn_w == 80
      btn_h == 80
      gap == 20
      rect_x == (WIN_W - panel_w) \div 2
      rect_y == (WIN_H - panel_h) \div 2
      x0 == rect_x + (panel_w - (4 * btn_w + 3 * gap)) \div 2
      y0 == rect_y + (panel_h - btn_h) \div 2
  IN <<x0 + i * (btn_w + gap), y0, btn_w, btn_h>>

piece_types == <<QUEEN, ROOK, BISHOP, KNIGHT>>

\* choose_promotion: what one event of the modal loop makes it return; None
\* when the loop goes on waiting.  (QUIT ends the program, see EngineQuit.)
choose_promotion(e) ==
  IF e.type = "KEYDOWN" /\ e.key \in {"K_ESCAPE", "K_q"} THEN <<QUEEN>>
  ELSE IF e.type = "MOUSEBUTTONDOWN"
          /\ \E i \in 0 .. 3 : collidepoint(PromotionButton(i), e.pos)
  THEN <<piece_types[1 + CHOOSE i \in 0 .. 3 : collidepoint(PromotionButton(i), e.pos)]>>
  ELSE None

\* a picker that opens for every move of a pawn
opens_picker_every_pawn_move(b, src_sq, dst_sq) ==
  LET piece == piece_at(b, src_sq) IN piece # None /\ piece[1] = PAWN

\* attempt_move: the picker is opened when the plain move is not legal, the
\* piece on src_sq is a pawn and dst_sq is on its far rank
opens_picker(b, src_sq, dst_sq) ==
  /\ ~is_legal(b, Move(src_sq, dst_sq, None))
  /\ LET piece == piece_at(b, src_sq) IN
     /\ piece # None
     /\ piece[1] = PAWN
     /\ \/ piece[2] = WHITE /\ square_rank(dst_sq) = 7
        \/ piece[2] = BLACK /\ square_rank(dst_sq) = 0

\* attempt_move, from the point where the move is known (promo is what the
\* picker returned, None when it was not opened): the move is pushed when it
\* is legal
attempt_move(b, lm, src_sq, dst_sq, promo) ==
  LET move == Move(src_sq, dst_sq, promo) IN
  IF is_legal(b, move)
  THEN [ok |-> TRUE, board |-> push(b, move), last_move |-> <<move>>]
  ELSE [ok |-> FALSE, board |-> b, last_move |-> lm]

\* update_game_state_after_move that takes the side to move for the winner
update_game_state_after_move_swapped(b, go, lb, rb) ==
  IF is_checkmate(b)
  THEN IF b.turn = BLACK
       THEN [game_over |-> TRUE, left_banner |-> "YOU LOST - CHECKMATE",
             right_banner |-> "YOU WON - CHECKMATE",
             prompt |-> [result_label |-> "CHECKMATE", winner_color |-> <<BLACK>>]]
       ELSE [game_over |-> TRUE, left_banner |-> "YOU WON - CHECKMATE",
             right_banner |-> "YOU LOST - CHECKMATE",
             prompt |-> [result_label |-> "CHECKMATE", winner_color |-> <<WHITE>>]]
  ELSE IF is_stalemate(b)
  THEN [game_over |-> TRUE, left_banner |-> "DRAW - STALEMATE",
        right_banner |-> "DRAW - STALEMATE",
        prompt |-> [result_label |-> "STALEMATE", winner_color |-> None]]
  ELSE [game_over |-> go, left_banner |-> lb, right_banner |-> rb, prompt |-> None]

\* update_game_state_after_move without the stalemate branch
update_game_state_after_move_mate_only(b, go, lb, rb) ==
  IF is_checkmate(b)
  THEN IF b.turn = WHITE
       THEN [game_over |-> TRUE, left_banner |-> "YOU LOST - CHECKMATE",
             right_banner |-> "YOU WON - CHECKMATE",
             prompt |-> [result_label |-> "CHECKMATE", winner_color |-> <<BLACK>>]]
       ELSE [game_over |-> TRUE, left_banner |-> "YOU WON - CHECKMATE",
             right_banner |-> "YOU LOST - CHECKMATE",
             prompt |-> [result_label |-> "CHECKMATE", winner_color |-> <<WHITE>>]]
  ELSE [game_over |-> go, left_banner |-> lb, right_banner |-> rb, prompt |-> None]

\* update_game_state_after_move: the new game_over and banners, and the
\* arguments of prompt_save_result when it is called.  (The source writes
\* the banners with an en dash, the model with a hyphen.)
update_game_state_after_move(b, go, lb, rb) ==
  IF is_checkmate(b)
  THEN IF b.turn = WHITE
       THEN [game_over |-> TRUE, left_banner |-> "YOU LOST - CHECKMATE",
             right_banner |-> "YOU WON - CHECKMATE",
             prompt |-> [result_label |-> "CHECKMATE", winner_color |-> <<BLACK>>]]
       ELSE [game_over |-> TRUE, left_banner |-> "YOU WON - CHECKMATE",
             right_banner |-> "YOU LOST - CHECKMATE",
             prompt |-> [result_label |-> "CHECKMATE", winner_color |-> <<WHITE>>]]
  ELSE IF is_stalemate(b)
  THEN [game_over |-> TRUE, left_banner |-> "DRAW - STALEMATE",
        right_banner |-> "DRAW - STALEMATE",
        prompt |-> [result_label |-> "STALEMATE", winner_color |-> None]]
  ELSE [game_over |-> go, left_banner |-> lb, right_banner |-> rb, prompt |-> None]

\* the row with the loser's colour computed like the winner's
result_row_loser_as_winner(result_label, winner_color, b) ==
  [result |-> result_label,
   winner_col |-> IF winner_color = <<WHITE>> THEN "White"
                  ELSE IF winner_color = <<BLACK>> THEN "Black" ELSE "NULL",
   loser_col |-> IF winner_color = <<WHITE>> THEN "White"
                 ELSE IF winner_color = <<BLACK>> THEN "Black" ELSE "NULL",
   move_count |-> b.move_stack]

\* prompt_save_result, K_RETURN: the row given to db_insert (the timestamp
\* and the two names typed into the prompt are left out of the model)
result_row(result_label, winner_color, b) ==
  [result |-> result_label,
   winner_col |-> IF winner_color = <<WHITE>> THEN "White"
                  ELSE IF winner_color = <<BLACK>> THEN "Black" ELSE "NULL",
   loser_col |-> IF winner_color = <<WHITE>> THEN "Black"
                 ELSE IF winner_color = <<BLACK>> THEN "White" ELSE "NULL",
   move_count |-> b.move_stack]

-----------------------------------------------------------------------------
(* chess_engine.py: the main loop and the two modal loops *)

\* lines 491-495 of attempt_move and what main does with its result
\* (lines 555-563); sq is the clicked square
FinishAttempt(src_sq, sq, promo) ==
  LET res == attempt_move(chess_board, last_move, src_sq, sq, promo)
      piece == piece_at(chess_board, sq)
  IN
  /\ chess_board' = res.board
  /\ last_move' = res.last_move
  /\ pending' = None
  /\ IF res.ok
     THEN LET u == update_game_state_after_move(res.board, game_over,
                                                left_banner, right_banner)
          IN
          /\ nmoves < MaxPlies
          /\ nmoves' = nmoves + 1
          /\ game' = [game EXCEPT !.plies = @ + 1,
                                  !.prompts = @ + IF u.prompt # None THEN 1 ELSE 0]
          /\ selected_sq' = None
          /\ legal_targets' = {}
          /\ game_over' = u.game_over
          /\ left_banner' = u.left_banner
          /\ right_banner' = u.right_banner
          /\ prompt' = u.prompt
          /\ pc' = IF u.prompt # None THEN "save" ELSE "main"
          /\ attempt' = "applied"
     ELSE /\ IF piece # None /\ piece[2] = res.board.turn
             THEN /\ selected_sq' = <<sq>>
                  /\ legal_targets' = update_legal_targets(res.board, <<sq>>)
             ELSE UNCHANGED <<selected_sq, legal_targets>>
          /\ pc' = "main"
          /\ attempt' = "rejected"
          /\ UNCHANGED <<nmoves, game, game_over, left_banner, right_banner, prompt>>

\* MOUSEBUTTONDOWN with button 1 at pos, in the main loop
EngineClick(pos) ==
  /\ variant = "engine" /\ pc = "main"
  /\ IF show_scoreboard
     THEN /\ show_scoreboard' =
               IF last_close_rect # None /\ collidepoint(last_close_rect, pos)
               THEN FALSE ELSE show_scoreboard
          /\ attempt' = "-"
          /\ UNCHANGED <<pc, nmoves, game, chess_board, selected_sq, legal_targets, last_move,
                         game_over, left_banner, right_banner, pending, prompt>>
     ELSE IF game_over \/ board_click_to_square(pos) = None
     THEN /\ attempt' = "-"
          /\ UNCHANGED <<pc, nmoves, game, chess_board, selected_sq, legal_targets, last_move,
                         game_over, left_banner, right_banner, show_scoreboard,
                         pending, prompt>>
     ELSE LET sq == board_click_to_square(pos)[1] IN
     IF piece_at_raises(sq)
     THEN /\ pc' = "crashed"
          /\ attempt' = IF selected_sq = None THEN "-" ELSE "rejected"
          /\ UNCHANGED <<nmoves, game, chess_board, selected_sq, legal_targets, last_move,
                         game_over, left_banner, right_banner, show_scoreboard,
                         pending, prompt>>
     ELSE LET piece == piece_at(chess_board, sq) IN
     IF selected_sq = None
     THEN /\ IF piece # None /\ piece[2] = chess_board.turn
             THEN /\ selected_sq' = <<sq>>
                  /\ legal_targets' = update_legal_targets(chess_board, <<sq>>)
             ELSE UNCHANGED <<selected_sq, legal_targets>>
          /\ attempt' = "-"
          /\ UNCHANGED <<pc, nmoves, game, chess_board, last_move, game_over, left_banner,
                         right_banner, show_scoreboard, pending, prompt>>
     ELSE IF sq \in legal_targets
     THEN IF opens_picker(chess_board, selected_sq[1], sq)
          THEN /\ pc' = "promotion"
               /\ attempt' = "-"
               /\ pending' = [src_sq |-> selected_sq[1], dst_sq |-> sq,
                              color |-> piece_at(chess_board, selected_sq[1])[2]]
               /\ UNCHANGED <<nmoves, game, chess_board, selected_sq, legal_targets,
                              last_move, game_over, left_banner, right_banner,
                              show_scoreboard, prompt>>
          ELSE /\ FinishAttempt(selected_sq[1], sq, None)
               /\ UNCHANGED show_scoreboard
     ELSE /\ IF piece # None /\ piece[2] = chess_board.turn
             THEN /\ selected_sq' = <<sq>>
                  /\ legal_targets' = update_legal_targets(chess_board, <<sq>>)
             ELSE UNCHANGED <<selected_sq, legal_targets>>
          /\ attempt' = "rejected"
          /\ UNCHANGED <<pc, nmoves, game, chess_board, last_move, game_over, left_banner,
                         right_banner, show_scoreboard, pending, prompt>>
  /\ UNCHANGED <<variant, board, selected, turn, last_mover, mouse, accepted, last_close_rect,
                 results>>

\* an event in the modal loop of choose_promotion that makes it return
PromotionChoice(e) ==
  /\ variant = "engine" /\ pc = "promotion"
  /\ choose_promotion(e) # None
  /\ FinishAttempt(pending.src_sq, pending.dst_sq, choose_promotion(e))
  /\ UNCHANGED <<variant, board, selected, turn, last_mover, mouse, accepted, show_scoreboard,
                 last_close_rect, results>>

\* QUIT in the main loop or in a modal loop, K_q in the main loop:
\* pygame.quit(); sys.exit()
EngineQuit ==
  /\ variant = "engine" /\ pc \in {"main", "promotion", "save"}
  /\ pc' = "exited"
  /\ attempt' = "-"
  /\ UNCHANGED <<variant, gridvars, mouse, accepted, enginevars>>

\* K_ESCAPE in the main loop: the test of line 523 ends the program, with
\* the scoreboard shown or not; the test of line 535 is never reached
EngineEscape ==
  /\ variant = "engine" /\ pc = "main"
  /\ pc' = "exited"
  /\ attempt' = "-"
  /\ UNCHANGED <<variant, gridvars, mouse, accepted, enginevars>>

\* K_r that forgets `legal_targets = set()`
EngineReset_keeping_targets ==
  /\ variant = "engine" /\ pc = "main"
  /\ chess_board' = Board
  /\ game' = [plies |-> 0, prompts |-> 0, rows |-> 0]
  /\ selected_sq' = None
  /\ game_over' = FALSE
  /\ left_banner' = ""
  /\ right_banner' = ""
  /\ attempt' = "-"
  /\ UNCHANGED <<variant, pc, board, selected, turn, nmoves, last_mover, mouse, accepted, last_move,
                 legal_targets, show_scoreboard, last_close_rect, pending, prompt, results>>

\* K_r in the main loop
EngineReset ==
  /\ variant = "engine" /\ pc = "main"
  /\ chess_board' = Board
  /\ game' = [plies |-> 0, prompts |-> 0, rows |-> 0]
  /\ selected_sq' = None
  /\ legal_targets' = {}
  /\ game_over' = FALSE
  /\ left_banner' = ""
  /\ right_banner' = ""
  /\ attempt' = "-"
  /\ UNCHANGED <<variant, pc, board, selected, turn, nmoves, last_mover, mouse, accepted, last_move,
                 show_scoreboard, last_close_rect, pending, prompt, results>>

\* K_s in the main loop
EngineToggleScoreboard ==
  /\ variant = "engine" /\ pc = "main"
  /\ show_scoreboard' = ~show_scoreboard
  /\ attempt' = "-"
  /\ UNCHANGED <<variant, pc, gridvars, game, mouse, accepted, chess_board, selected_sq, legal_targets,
                 last_move, game_over, left_banner, right_banner, last_close_rect,
                 pending, prompt, results>>

\* the drawing at the end of a pass of the main loop: with the scoreboard
\* shown, draw_scoreboard sets last_close_rect
EngineDraw ==
  /\ variant = "engine" /\ pc = "main"
  /\ show_scoreboard
  /\ last_close_rect' = close_rect
  /\ attempt' = "-"
  /\ UNCHANGED <<variant, pc, gridvars, game, mouse, accepted, chess_board, selected_sq, legal_targets,
                 last_move, game_over, left_banner, right_banner, show_scoreboard,
                 pending, prompt, results>>

\* K_ESCAPE in the prompt that saves like K_RETURN
SaveEscape_saving ==
  /\ variant = "engine" /\ pc = "save"
  /\ pc' = "main"
  /\ results' = Append(results, [result |-> prompt.result_label,
                                  winner_col |-> "NULL", loser_col |-> "NULL",
                                  move_count |-> chess_board.move_stack])
  /\ prompt' = None
  /\ attempt' = "-"
  /\ game' = [game EXCEPT !.rows = @ + 1]
  /\ UNCHANGED <<variant, gridvars, mouse, accepted, chess_board, selected_sq, legal_targets,
                 last_move, game_over, left_banner, right_banner, show_scoreboard,
                 last_close_rect, pending>>

\* prompt_save_result: K_ESCAPE returns without saving
SaveEscape ==
  /\ variant = "engine" /\ pc = "save"
  /\ pc' = "main"
  /\ prompt' = None
  /\ attempt' = "-"
  /\ UNCHANGED <<variant, gridvars, game, mouse, accepted, chess_board, selected_sq, legal_targets,
                 last_move, game_over, left_banner, right_banner, show_scoreboard,
                 last_close_rect, pending, results>>

\* prompt_save_result: K_RETURN inserts the row and returns
SaveReturn ==
  /\ variant = "engine" /\ pc = "save"
  /\ pc' = "main"
  /\ results' = Append(results, result_row(prompt.result_label, prompt.winner_color,
                                           chess_board))
  /\ prompt' = None
  /\ attempt' = "-"
  /\ game' = [game EXCEPT !.rows = @ + 1]
  /\ UNCHANGED <<variant, gridvars, mouse, accepted, chess_board, selected_sq, legal_targets,
                 last_move, game_over, left_banner, right_banner, show_scoreboard,
                 last_close_rect, pending>>

-----------------------------------------------------------------------------
(* Mouse positions the exploration clicks on.  A click is given by the     *)
(* canonical square it is aimed at and the panel; the pixel is the centre  *)
(* of the cell that shows this square on that panel (the right panel is    *)
(* drawn rotated).                                                         *)

GridPixel(panel, cell) ==
  IF panel = "left"
  THEN <<GRID_LEFT_ANCHOR[1] + cell[2] * SQ + SQ \div 2,
         GRID_LEFT_ANCHOR[2] + cell[1] * SQ + SQ \div 2>>
  ELSE <<GRID_RIGHT_ANCHOR[1] + (7 - cell[2]) * SQ + SQ \div 2,
         GRID_RIGHT_ANCHOR[2] + (7 - cell[1]) * SQ + SQ \div 2>>

\* e2, e4, d1, h5, f7, f6, f5, e8
GridCells ==
  {<<6, 4>>, <<4, 4>>, <<7, 3>>, <<3, 7>>, <<1, 5>>, <<2, 5>>, <<3, 5>>, <<0, 4>>}

\* a point in the gap between the two panels
GridOutside == <<PADDING + GRID_W_BOARD + GAP_BETWEEN \div 2, TOP_BANNER + SQ>>

GridPoints ==
  {GridPixel(p, cell) : p \in {"left", "right"}, cell \in GridCells} \cup {GridOutside}

-----------------------------------------------------------------------------
(* chess.py: the main loop *)

\* MOUSEBUTTONDOWN with button 1 at pos
NaiveClick(pos) ==
  /\ variant = "naive" /\ pc = "main"
  /\ LET sq == naive_board_from_mouse(pos) IN
     IF sq = None
     THEN /\ attempt' = "-"
          /\ UNCHANGED gridvars
     ELSE IF selected = None
     THEN /\ selected' = IF board[sq[1]][sq[2]] # None
                            /\ side_of(board[sq[1]][sq[2]]) = turn
                         THEN sq ELSE selected
          /\ attempt' = "-"
          /\ UNCHANGED <<board, turn, nmoves, last_mover>>
     ELSE LET res == try_move(board, turn, selected, sq) IN
          IF res.ok
          THEN /\ nmoves < MaxMoves
               /\ board' = res.board
               /\ turn' = res.turn
               /\ selected' = None
               /\ nmoves' = nmoves + 1
               /\ last_mover' = side_of(board[selected[1]][selected[2]])
               /\ attempt' = "applied"
          ELSE /\ board' = res.board
               /\ turn' = res.turn
               /\ selected' = IF res.board[sq[1]][sq[2]] # None
                                 /\ side_of(res.board[sq[1]][sq[2]]) = res.turn
                              THEN sq ELSE selected
               /\ attempt' = "rejected"
               /\ UNCHANGED <<nmoves, last_mover>>
  /\ UNCHANGED <<variant, pc, mouse, accepted, enginevars>>

\* QUIT, or KEYDOWN with K_q or K_ESCAPE: pygame.quit(); sys.exit()
NaiveQuit ==
  /\ variant = "naive" /\ pc = "main"
  /\ pc' = "exited"
  /\ attempt' = "-"
  /\ UNCHANGED <<variant, gridvars, mouse, accepted, enginevars>>

-----------------------------------------------------------------------------
(* chess_rules_light.py: the main loop *)

\* a re-selection that takes a click on either panel
OwnPanel_either(t, which) == which \in {"left", "right"}

\* the panel on which the side to move has to select
OwnPanel(t, which) == (t = "w" /\ which = "left") \/ (t = "b" /\ which = "right")

\* MOUSEBUTTONDOWN with button 1 at pos
LightClick(pos) ==
  /\ variant = "light" /\ pc = "main"
  /\ LET hit == board_from_mouse(pos)
         sq == hit.sq
         which == hit.which
     IN
     IF sq = None
     THEN /\ attempt' = "-"
          /\ UNCHANGED gridvars
     ELSE LET code == board[sq[1]][sq[2]] IN
     IF selected = None
     THEN /\ selected' = IF code = None THEN selected
                         ELSE IF side_of(code) # turn THEN selected
                         ELSE IF (turn = "w" /\ which # "left")
                                 \/ (turn = "b" /\ which # "right")
                              THEN selected
                         ELSE sq
          /\ attempt' = "-"
          /\ UNCHANGED <<board, turn, nmoves, last_mover>>
     ELSE IF sq = selected
     THEN /\ selected' = None
          /\ attempt' = "rejected"
          /\ UNCHANGED <<board, turn, nmoves, last_mover>>
     ELSE IF legal_move_basic(board, selected, sq)
     THEN /\ nmoves < MaxMoves
          /\ board' = [[board EXCEPT ![sq[1]][sq[2]] = board[selected[1]][selected[2]]]
                         EXCEPT ![selected[1]][selected[2]] = None]
          /\ selected' = None
          /\ turn' = IF turn = "w" THEN "b" ELSE "w"
          /\ nmoves' = nmoves + 1
          /\ last_mover' = side_of(board[selected[1]][selected[2]])
          /\ attempt' = "applied"
     ELSE /\ selected' = IF code # None /\ side_of(code) = turn /\ OwnPanel(turn, which)
                         THEN sq ELSE selected
          /\ attempt' = "rejected"
          /\ UNCHANGED <<board, turn, nmoves, last_mover>>
  /\ UNCHANGED <<variant, pc, mouse, accepted, enginevars>>

\* QUIT, or KEYDOWN with K_q or K_ESCAPE: pygame.quit(); sys.exit()
LightQuit ==
  /\ variant = "light" /\ pc = "main"
  /\ pc' = "exited"
  /\ attempt' = "-"
  /\ UNCHANGED <<variant, gridvars, mouse, accepted, enginevars>>

-----------------------------------------------------------------------------
(* Inputs of the exploration of chess_engine.py *)

\* the centre of the cell that shows square sq on a panel, as draw_board
\* and draw_pieces place it
EnginePixel(panel, sq) ==
  LET rc == IF panel = "left" THEN rc_from_square_for_white_view(sq)
            ELSE rc_from_square_for_black_view(sq)
      anchor == IF panel = "left" THEN LEFT_ANCHOR ELSE RIGHT_ANCHOR
  IN <<anchor[1] + COORD_PAD + rc[2] * SQ + SQ \div 2,
       anchor[2] + COORD_PAD + rc[1] * SQ + SQ \div 2>>

\* f2 f3 g2 g4 e7 e5 d8 h4 (a fool's mate), and the squares around the two
\* kings of the endgame positions: g6 f7 f8 h6 h8, g3 f1 h3 h1
EngineSquares ==
  {13, 21, 14, 30, 52, 36, 59, 31} \cup {46, 53, 61, 47, 63} \cup {22, 5, 23, 7}

\* points in the label margin of the left panel: left of rank 8, below the
\* a-file, and the top right corner; and a point in the gap between the panels
EngineMarginPoints ==
  {<<LEFT_ANCHOR[1] + COORD_PAD \div 2, LEFT_ANCHOR[2] + COORD_PAD + SQ \div 2>>,
   <<LEFT_ANCHOR[1] + COORD_PAD + SQ \div 2, LEFT_ANCHOR[2] + H_BOARD - COORD_PAD \div 2>>,
   <<LEFT_ANCHOR[1] + W_BOARD - COORD_PAD \div 2, LEFT_ANCHOR[2] + COORD_PAD \div 2>>}

EngineOutside == <<PADDING + W_BOARD + GAP_BETWEEN \div 2, TOP_BANNER + SQ>>

\* the centre of the close button of the scoreboard
ClosePoint == <<close_rect[1] + close_rect[3] \div 2, close_rect[2] + close_rect[4] \div 2>>

\* every square is clicked on the left panel, three also on the right panel
EnginePoints ==
  {EnginePixel("left", sq) : sq \in EngineSquares}
    \cup {EnginePixel("right", sq) : sq \in {52, 36, 13}}
    \cup EngineMarginPoints \cup {EngineOutside, ClosePoint}

\* events in the modal loop of choose_promotion: the two keys, a click on
\* each button, a click beside the buttons
PromotionEvents ==
  {[type |-> "KEYDOWN", key |-> k, pos |-> None] : k \in {"K_ESCAPE", "K_q"}}
    \cup {[type |-> "MOUSEBUTTONDOWN", key |-> "",
           pos |-> <<PromotionButton(i)[1] + 40, PromotionButton(i)[2] + 40>>] :
            i \in 0 .. 3}
    \cup {[type |-> "MOUSEBUTTONDOWN", key |-> "", pos |-> EngineOutside]}

\* Positions late in a game, from which the exploration also starts the
\* main loop: mate, stalemate and promotion are too many moves away from
\* the starting position.
\*   White Kg6, Pf7, Black Kh8, White to move
\*   Black Kg3, Pf2, White Kh1, Black to move
EndgameBoards ==
  {[pieces |-> [sq \in SQUARES |->
                  CASE sq = 46 -> Piece(KING, WHITE)
                    [] sq = 53 -> Piece(PAWN, WHITE)
                    [] sq = 63 -> Piece(KING, BLACK)
                    [] OTHER -> None],
    turn |-> WHITE, castling_rights |-> {}, ep_square |-> None, move_stack |-> 80],
   [pieces |-> [sq \in SQUARES |->
                  CASE sq = 22 -> Piece(KING, BLACK)
                    [] sq = 13 -> Piece(PAWN, BLACK)
                    [] sq = 7 -> Piece(KING, WHITE)
                    [] OTHER -> None],
    turn |-> BLACK, castling_rights |-> {}, ep_square |-> None, move_stack |-> 81]}

-----------------------------------------------------------------------------
(* Specifications *)

\* the state of chess_engine.py after its module-level assignments
EngineIdle ==
  /\ chess_board = Board
  /\ selected_sq = None
  /\ legal_targets = {}
  /\ last_move = None
  /\ game_over = FALSE
  /\ left_banner = ""
  /\ right_banner = ""
  /\ show_scoreboard = FALSE
  /\ last_close_rect = None
  /\ pending = None
  /\ prompt = None
  /\ results = <<>>
  /\ game = [plies |-> chess_board.move_stack, prompts |-> 0, rows |-> 0]

GridIdle ==
  /\ board = start_position
  /\ selected = None
  /\ turn = "w"
  /\ nmoves = 0
  /\ last_mover = "-"
  /\ attempt = "-"

-----------------------------------------------------------------------------

InitGrid ==
  /\ variant \in {"naive", "light"}
  /\ pc = "main"
  /\ GridIdle
  /\ mouse = None
  /\ accepted = {}
  /\ EngineIdle

NextGrid ==
  \/ \E pos \in GridPoints : NaiveClick(pos)
  \/ NaiveQuit
  \/ \E pos \in GridPoints : LightClick(pos)
  \/ LightQuit

SpecGrid == InitGrid /\ [][NextGrid]_vars

\* chess_engine.py after construction, or late in a game (EndgameBoards)
InitEngine ==
  /\ variant = "engine"
  /\ pc = "main"
  /\ GridIdle
  /\ mouse = None
  /\ accepted = {}
  /\ chess_board \in {Board} \cup EndgameBoards
  /\ selected_sq = None
  /\ legal_targets = {}
  /\ last_move = None
  /\ game_over = FALSE
  /\ left_banner = ""
  /\ right_banner = ""
  /\ show_scoreboard = FALSE
  /\ last_close_rect = None
  /\ pending = None
  /\ prompt = None
  /\ results = <<>>
  /\ game = [plies |-> chess_board.move_stack, prompts |-> 0, rows |-> 0]

NextEngine ==
  \/ \E pos \in EnginePoints : EngineClick(pos)
  \/ \E e \in PromotionEvents : PromotionChoice(e)
  \/ EngineQuit
  \/ EngineEscape
  \/ EngineReset
  \/ EngineToggleScoreboard
  \/ EngineDraw
  \/ SaveEscape
  \/ SaveReturn

-----------------------------------------------------------------------------
(* The click-to-square mappings as functions of the mouse position *)

\* the mouse position is mapped by each of the three programs
MouseMap ==
  /\ variant = "mouse"
  /\ ~mouse.mapped
  /\ mouse' = [pos |-> mouse.pos, mapped |-> TRUE,
               naive |-> naive_board_from_mouse(mouse.pos),
               light |-> board_from_mouse(mouse.pos),
               engine |-> board_click_to_square(mouse.pos)]
  /\ UNCHANGED <<variant, pc, gridvars, attempt, accepted, enginevars>>

\* coordinates at which a cell or a panel of one of the programs begins,
\* the pixel before, and the middle of the cell
XBreaks ==
  {GRID_LEFT_ANCHOR[1] + k * SQ : k \in 0 .. 8}
    \cup {GRID_RIGHT_ANCHOR[1] + k * SQ : k \in 0 .. 8}
    \cup {LEFT_ANCHOR[1] + COORD_PAD + k * SQ : k \in 0 .. 8}
    \cup {RIGHT_ANCHOR[1] + COORD_PAD + k * SQ : k \in 0 .. 8}
    \cup {LEFT_ANCHOR[1] + W_BOARD, RIGHT_ANCHOR[1], RIGHT_ANCHOR[1] + W_BOARD}

YBreaks ==
  {GRID_LEFT_ANCHOR[2] + k * SQ : k \in 0 .. 8}
    \cup {LEFT_ANCHOR[2] + COORD_PAD + k * SQ : k \in 0 .. 8}
    \cup {LEFT_ANCHOR[2] + H_BOARD}

MousePoints ==
  {<<x + dx, y + dy>> : x \in XBreaks, dx \in {0 - 1, 0, SQ \div 2},
                        y \in YBreaks, dy \in {0 - 1, 0, SQ \div 2}}

InitMouse ==
  /\ variant = "mouse"
  /\ pc = "main"
  /\ GridIdle
  /\ accepted = {}
  /\ EngineIdle
  /\ \E pos \in MousePoints :
       mouse = [pos |-> pos, mapped |-> FALSE, naive |-> None,
                light |-> [sq |-> None, which |-> None], engine |-> None]

SpecMouse == InitMouse /\ [][MouseMap]_vars

-----------------------------------------------------------------------------
(* legal_move_basic on test boards: one piece, the probed one, stands on   *)
(* `selected`; other pieces are put on the squares around it.              *)

\* squares of the probed piece: d2, e7, e4, a5
ProbeCells == {<<6, 3>>, <<1, 4>>, <<4, 4>>, <<3, 0>>}

ProbeCodes == {Code(s, k) : s \in {"w", "b"}, k \in {"p", "b", "r", "q"}}

\* the squares one and two steps away in the eight directions
ExtraOffsets ==
  {<<k * d[1], k * d[2]>> : k \in 1 .. 2, d \in KingSteps}

EmptyBoard == [r \in Rows |-> [c \in Rows |-> None]]

Occupied(b) == {cell \in Cells : b[cell[1]][cell[2]] # None}

\* a knight of side s is put on an empty square near the probed piece
PlaceExtra(off, s) ==
  /\ variant = "rules"
  /\ pc = "main"
  /\ selected # None
  /\ Cardinality(Occupied(board)) - 1 < MaxExtra
  /\ LET r == selected[1] + off[1]
         c == selected[2] + off[2]
     IN /\ in_bounds(r, c)
        /\ board[r][c] = None
        /\ board' = [board EXCEPT ![r][c] = Code(s, "n")]
  /\ UNCHANGED <<variant, pc, selected, turn, nmoves, last_mover, attempt, mouse, accepted, enginevars>>

InitRules ==
  /\ variant = "rules"
  /\ pc = "main"
  /\ nmoves = 0
  /\ last_mover = "-"
  /\ attempt = "-"
  /\ mouse = None
  /\ accepted = {}
  /\ EngineIdle
  /\ \/ board = start_position /\ selected = None /\ turn = "w"
     \/ \E cell \in ProbeCells, code \in ProbeCodes :
          /\ board = [EmptyBoard EXCEPT ![cell[1]][cell[2]] = code]
          /\ selected = cell
          /\ turn = side_of(code)

\* legal_move_basic is called for every piece on the board and every
\* destination
ProbeMoves ==
  /\ variant = "rules"
  /\ pc = "main"
  /\ pc' = "probed"
  /\ accepted' = {m \in Occupied(board) \X Cells :
                    legal_move_basic(board, m[1], m[2])}
  /\ UNCHANGED <<variant, gridvars, attempt, mouse, enginevars>>

NextRules ==
  \/ \E off \in ExtraOffsets, s \in {"w", "b"} : PlaceExtra(off, s)
  \/ ProbeMoves

SpecRules == InitRules /\ [][NextRules]_vars

-----------------------------------------------------------------------------

\* the three programs, each from the state in which it starts
Init == InitGrid \/ InitEngine

Next == NextGrid \/ NextEngine

Spec == Init /\ [][Next]_vars

SpecEngine == InitEngine /\ [][NextEngine]_vars

-----------------------------------------------------------------------------
(* Properties *)

\* C1 as stated: in all three programs a move attempt that is rejected
\* leaves the board and the side to move as they were and raises no error;
\* only the selection (and with it legal_targets) may change.
\* chess_engine.py breaks it: with a piece selected, a click that maps to a
\* square above 63 raises IndexError in board.piece_at at line 548.
RejectedAttemptChangesOnlySelection ==
  [][attempt' = "rejected" =>
       /\ pc' = "main"
       /\ board' = board
       /\ turn' = turn
       /\ chess_board' = chess_board
       /\ UNCHANGED <<nmoves, last_mover, last_move, game_over, left_banner,
                      right_banner, show_scoreboard, last_close_rect, prompt,
                      results>>]_vars

\* what holds of every rejected attempt: nothing but the selection changes,
\* and chess.py and chess_rules_light.py stay in their main loop
RejectedAttemptKeepsBoard ==
  [][attempt' = "rejected" =>
       /\ variant \in {"naive", "light"} => pc' = "main"
       /\ board' = board
       /\ turn' = turn
       /\ chess_board' = chess_board
       /\ UNCHANGED <<nmoves, last_mover, last_move, game_over, left_banner,
                      right_banner, show_scoreboard, last_close_rect, prompt,
                      results>>]_vars

\* a rejected attempt in chess_engine.py, after a move was made
RejectedAttemptSeen ==
  /\ variant = "engine" /\ pc = "main"
  /\ attempt = "rejected"
  /\ selected_sq # None
  /\ nmoves > 0

\* a move attempt in chess_engine.py that ended the program with IndexError
RejectedAttemptCrashed ==
  /\ variant = "engine" /\ pc = "crashed"
  /\ attempt = "rejected"
  /\ selected_sq # None

\* C2: in chess.py and chess_rules_light.py White is to move exactly when
\* the number of applied moves is even, whatever else was clicked, and the
\* n-th applied move moved a White piece when n is odd, a Black piece when n
\* is even.
TurnAlternates ==
  variant \in {"naive", "light"} =>
    /\ turn = IF nmoves % 2 = 0 THEN "w" ELSE "b"
    /\ nmoves > 0 => last_mover = IF nmoves % 2 = 1 THEN "w" ELSE "b"

\* after the fourth move, made by Black, an attempt was rejected
FourthMoveByBlack ==
  /\ variant = "light"
  /\ nmoves = 4 /\ last_mover = "b"
  /\ attempt = "rejected"
  /\ turn = "w"

KingCount(b, s) ==
  Cardinality({cell \in Cells : b[cell[1]][cell[2]] = Code(s, "k")})

\* C3 as stated: in every reachable state of chess.py and
\* chess_rules_light.py the board holds exactly one White king and exactly
\* one Black king.
ExactlyOneKingEach ==
  variant \in {"naive", "light"} =>
    KingCount(board, "w") = 1 /\ KingCount(board, "b") = 1

\* C3, amended: in every reachable state of chess.py and
\* chess_rules_light.py the board holds at most one White king and at most
\* one Black king (a king can be captured, never duplicated).
AtMostOneKingEach ==
  variant \in {"naive", "light"} =>
    KingCount(board, "w") <= 1 /\ KingCount(board, "b") <= 1

\* chess_rules_light.py after the Black king was captured
BlackKingCaptured ==
  /\ variant = "light"
  /\ KingCount(board, "b") = 0
  /\ KingCount(board, "w") = 1

\* the cells <<r, c>> of a panel of chess.py / chess_rules_light.py that
\* draw_board draws over the pixel pos
GridCellsAt(anchor, pos) ==
  {cell \in Cells : collidepoint(<<anchor[1] + cell[2] * SQ, anchor[2] + cell[1] * SQ,
                                   SQ, SQ>>, pos)}

\* the canonical squares whose cell is drawn under pos, on either panel
\* (the right panel shows board[7 - r][7 - c] in cell <<r, c>>)
GridSquaresAt(pos) ==
  GridCellsAt(GRID_LEFT_ANCHOR, pos)
    \cup {<<7 - cell[1], 7 - cell[2]>> : cell \in GridCellsAt(GRID_RIGHT_ANCHOR, pos)}

\* the cells of a panel of chess_engine.py that draw_board draws over pos
EngineCellsAt(anchor, pos) ==
  {cell \in Cells : collidepoint(<<anchor[1] + cell[2] * SQ + COORD_PAD,
                                   anchor[2] + cell[1] * SQ + COORD_PAD, SQ, SQ>>, pos)}

\* the squares that draw_pieces shows in a cell drawn under pos
EngineSquaresAt(pos) ==
  {sq \in SQUARES : rc_from_square_for_white_view(sq) \in EngineCellsAt(LEFT_ANCHOR, pos)}
    \cup {sq \in SQUARES :
            rc_from_square_for_black_view(sq) \in EngineCellsAt(RIGHT_ANCHOR, pos)}

\* C4 as stated: for every pixel each program's click-to-square mapping
\* returns no square or the square (row and column in 0..7) whose cell is
\* drawn under the pointer; in particular a click in the label margin of a
\* panel of chess_engine.py yields no square.
ClickYieldsDrawnSquare ==
  (variant = "mouse" /\ mouse.mapped) =>
    /\ mouse.naive = None \/ mouse.naive \in GridSquaresAt(mouse.pos)
    /\ mouse.light.sq = None \/ mouse.light.sq \in GridSquaresAt(mouse.pos)
    /\ mouse.engine = None \/ mouse.engine[1] \in EngineSquaresAt(mouse.pos)

WhiteMoves(acc, b) == {m \in acc : side_of(b[m[1][1]][m[1][2]]) = "w"}

MovesOfKind(acc, b, k) == {m \in acc : kind_of(b[m[1][1]][m[1][2]]) = k}

\* C5: on start_position legal_move_basic accepts exactly 20 moves of White
\* pieces: one and two squares forward for each of the 8 pawns, 4 knight
\* moves, and no move of a rook, bishop, queen or king.
StartPositionHasTwentyMoves ==
  (variant = "rules" /\ pc = "probed" /\ board = start_position) =>
    LET W == WhiteMoves(accepted, board) IN
    /\ Cardinality(W) = 20
    /\ MovesOfKind(W, board, "p")
         = {<<<<6, c>>, <<6 - k, c>>>> : c \in Rows, k \in {1, 2}}
    /\ Cardinality(MovesOfKind(W, board, "n")) = 4
    /\ \A k \in {"r", "b", "q", "k"} : MovesOfKind(W, board, k) = {}

\* the starting position was probed: Nb1-c3 is among the accepted moves
StartPositionProbed ==
  /\ variant = "rules" /\ pc = "probed"
  /\ board = start_position
  /\ <<<<7, 1>>, <<5, 2>>>> \in accepted

\* the pawn rule of C6 for the pawn on src
PawnRule(b, src, dst) ==
  LET s == side_of(b[src[1]][src[2]])
      fwd == IF s = "w" THEN 0 - 1 ELSE 1
      home == IF s = "w" THEN 6 ELSE 1
      target == b[dst[1]][dst[2]]
  IN
  \/ dst = <<src[1] + fwd, src[2]>> /\ target = None
  \/ /\ src[1] = home
     /\ dst = <<src[1] + 2 * fwd, src[2]>>
     /\ b[src[1] + fwd][src[2]] = None
     /\ target = None
  \/ /\ dst[1] = src[1] + fwd
     /\ dst[2] \in {src[2] - 1, src[2] + 1}
     /\ target # None
     /\ side_of(target) # s

\* C6: legal_move_basic accepts a move of a pawn exactly when it is one
\* square straight forward to an empty square, two squares straight forward
\* from the starting row over an empty square to an empty square, or one
\* square diagonally forward onto an enemy piece.
PawnMovesAreExactlyTheRule ==
  (variant = "rules" /\ pc = "probed") =>
    \A src \in Occupied(board) :
      kind_of(board[src[1]][src[2]]) = "p" =>
        \A dst \in Cells : (<<src, dst>> \in accepted) <=> PawnRule(board, src, dst)

\* the White pawn on d2 may go to d3 and d4 and capture on e3, not go to c3
PawnWithAllThreeMoves ==
  /\ variant = "rules" /\ pc = "probed"
  /\ board[6][3] = Code("w", "p")
  /\ board[5][4] = Code("b", "n")
  /\ {<<<<6, 3>>, <<5, 3>>>>, <<<<6, 3>>, <<4, 3>>>>, <<<<6, 3>>, <<5, 4>>>>} \subseteq accepted
  /\ <<<<6, 3>>, <<5, 2>>>> \notin accepted

\* the squares strictly between src and dst on their common line
Between(src, dst) ==
  {p \in Cells \ {src, dst} :
     /\ (p[1] - src[1]) * (dst[2] - src[2]) = (p[2] - src[2]) * (dst[1] - src[1])
     /\ (src[1] <= p[1] /\ p[1] <= dst[1]) \/ (dst[1] <= p[1] /\ p[1] <= src[1])
     /\ (src[2] <= p[2] /\ p[2] <= dst[2]) \/ (dst[2] <= p[2] /\ p[2] <= src[2])}

\* the slider rule of C7 for the bishop, rook or queen on src
SliderRule(b, src, dst) ==
  LET k == kind_of(b[src[1]][src[2]])
      diagonal == Abs(dst[1] - src[1]) = Abs(dst[2] - src[2])
      straight == dst[1] = src[1] \/ dst[2] = src[2]
      target == b[dst[1]][dst[2]]
  IN
  /\ dst # src
  /\ CASE k = "b" -> diagonal
       [] k = "r" -> straight
       [] k = "q" -> diagonal \/ straight
  /\ \A p \in Between(src, dst) : b[p[1]][p[2]] = None
  /\ target = None \/ side_of(target) # side_of(b[src[1]][src[2]])

\* C7: legal_move_basic accepts a move of a bishop, rook or queen to another
\* square exactly when the destination is on a line of the piece, every
\* square between is empty, and the destination is empty or holds an enemy
\* piece.
SliderMovesAreExactlyTheRule ==
  (variant = "rules" /\ pc = "probed") =>
    \A src \in Occupied(board) :
      kind_of(board[src[1]][src[2]]) \in {"b", "r", "q"} =>
        \A dst \in Cells : (<<src, dst>> \in accepted) <=> SliderRule(board, src, dst)

\* the White queen on e4 next to a White knight on f4, a Black knight two
\* squares up the file: she may take it, not pass it, and not go to f4 or g4
QueenBlockedAndCapturing ==
  /\ variant = "rules" /\ pc = "probed"
  /\ board[4][4] = Code("w", "q")
  /\ board[4][5] = Code("w", "n")
  /\ board[2][4] = Code("b", "n")
  /\ <<<<4, 4>>, <<2, 4>>>> \in accepted
  /\ <<<<4, 4>>, <<1, 4>>>> \notin accepted
  /\ <<<<4, 4>>, <<4, 5>>>> \notin accepted
  /\ <<<<4, 4>>, <<4, 6>>>> \notin accepted

FarRank(color) == IF color = WHITE THEN 7 ELSE 0

\* C8: in chess_engine.py an applied move that takes a pawn to its far rank
\* is made from the picker and carries Queen, Rook, Bishop or Knight; the
\* picker opens only for a pawn going to its far rank; K_ESCAPE and K_q in
\* the picker give Queen.
PromotionComesFromPicker ==
  [][/\ (variant = "engine" /\ attempt' = "applied") =>
          LET m == last_move'[1]
              piece == piece_at(chess_board, m.from_square)
          IN (piece[1] = PAWN /\ square_rank(m.to_square) = FarRank(piece[2])) =>
               /\ pc = "promotion"
               /\ m.promotion \in {<<QUEEN>>, <<ROOK>>, <<BISHOP>>, <<KNIGHT>>}
     /\ pc' = "promotion" =>
          LET piece == piece_at(chess_board', pending'.src_sq) IN
          /\ piece # None
          /\ piece[1] = PAWN
          /\ square_rank(pending'.dst_sq) = FarRank(piece[2])
     /\ \A k \in {"K_ESCAPE", "K_q"} :
          choose_promotion([type |-> "KEYDOWN", key |-> k, pos |-> None]) = <<QUEEN>>
    ]_vars

\* a pawn was promoted to a knight
PromotedToKnight ==
  /\ variant = "engine"
  /\ attempt = "applied"
  /\ last_move # None
  /\ last_move[1].promotion = <<KNIGHT>>
  /\ piece_at(chess_board, last_move[1].to_square)[1] = KNIGHT

\* C9: in chess_engine.py, after an applied move: in a checkmate the side to
\* move has lost (the White panel shows YOU LOST and Black is the winner
\* handed to prompt_save_result exactly when White is to move, the converse
\* when Black is to move); in a stalemate both panels show the draw banner
\* and no winner is handed over; otherwise no banner is set and the game is
\* not over.
OutcomeAfterMove ==
  [][(variant = "engine" /\ attempt' = "applied") =>
       LET b == chess_board' IN
       IF is_checkmate(b)
       THEN /\ game_over'
            /\ prompt' # None
            /\ prompt'.result_label = "CHECKMATE"
            /\ prompt'.winner_color = <<~b.turn>>
            /\ left_banner' = IF b.turn = WHITE THEN "YOU LOST - CHECKMATE"
                              ELSE "YOU WON - CHECKMATE"
            /\ right_banner' = IF b.turn = WHITE THEN "YOU WON - CHECKMATE"
                               ELSE "YOU LOST - CHECKMATE"
       ELSE IF is_stalemate(b)
       THEN /\ game_over'
            /\ prompt' # None
            /\ prompt'.result_label = "STALEMATE"
            /\ prompt'.winner_color = None
            /\ left_banner' = "DRAW - STALEMATE"
            /\ right_banner' = "DRAW - STALEMATE"
       ELSE /\ ~game_over'
            /\ prompt' = None
            /\ left_banner' = ""
            /\ right_banner' = ""
    ]_vars

\* White was mated: the prompt is open with Black as the winner
WhiteMated ==
  /\ variant = "engine" /\ pc = "save"
  /\ attempt = "applied"
  /\ is_checkmate(chess_board)
  /\ chess_board.turn = WHITE
  /\ left_banner = "YOU LOST - CHECKMATE"
  /\ prompt.winner_color = <<BLACK>>

\* C10: whenever the main loop of chess_engine.py waits for input,
\* game_over is true exactly when the board is checkmate or stalemate.
GameOverIffTerminal ==
  (variant = "engine" /\ pc = "main") =>
    (game_over <=> (is_checkmate(chess_board) \/ is_stalemate(chess_board)))

\* back in the main loop after a stalemate
StalemateInMainLoop ==
  /\ variant = "engine" /\ pc = "main"
  /\ game_over
  /\ is_stalemate(chess_board)

\* C11: in chess_rules_light.py a click sets the selection (first selection
\* or re-selection after a rejected move) only when it is on the panel of
\* the side to move: left for White, right for Black.
SelectionOnlyOnOwnPanel ==
  [][\A pos \in GridPoints :
       (LightClick(pos) /\ selected' # None /\ selected' # selected) =>
         board_from_mouse(pos).which = IF turn = "w" THEN "left" ELSE "right"]_vars

\* Black's king on e8 is selected after a rejected attempt of Black
BlackSelectedAfterRejection ==
  /\ variant = "light"
  /\ turn = "b"
  /\ attempt = "rejected"
  /\ selected = <<0, 4>>

\* C12 as stated: in chess_engine.py, with the scoreboard shown, K_ESCAPE
\* closes the scoreboard and the program keeps running.
EscapeClosesScoreboard ==
  [][(EngineEscape /\ show_scoreboard) =>
       (show_scoreboard' = FALSE /\ pc' = "main")]_vars

ColourName(color) == IF color = WHITE THEN "White" ELSE "Black"

\* C13: every row chess_engine.py inserts has winner_col and loser_col both
\* NULL, exactly when the result is STALEMATE, or the two opposite colours;
\* for CHECKMATE loser_col is the side to move of the mated board and
\* winner_col the other side; move_count is the number of moves applied
\* since the program started or the board was last reset.
InsertedRowWellFormed ==
  [][Len(results') > Len(results) =>
       LET row == results'[Len(results')] IN
       /\ results' = Append(results, row)
       /\ row.result \in {"CHECKMATE", "STALEMATE"}
       /\ \/ row.winner_col = "NULL" /\ row.loser_col = "NULL"
          \/ {row.winner_col, row.loser_col} = {"White", "Black"}
       /\ (row.winner_col = "NULL") <=> (row.result = "STALEMATE")
       /\ row.result = "CHECKMATE" =>
            /\ is_checkmate(chess_board)
            /\ row.loser_col = ColourName(chess_board.turn)
            /\ row.winner_col = ColourName(~chess_board.turn)
       /\ row.result = "STALEMATE" => is_stalemate(chess_board)
       /\ row.move_count = game.plies]_vars

\* a fool's mate played in a new game was saved: Black won in four moves
FoolsMateSaved ==
  /\ variant = "engine"
  /\ Len(results) = 1
  /\ results[1] = [result |-> "CHECKMATE", winner_col |-> "Black",
                   loser_col |-> "White", move_count |-> 4]

\* one prompt for a game that has ended, none for one that has not, and no
\* more rows than prompts
OnePromptPerEndedGame ==
  variant = "engine" =>
    /\ game.prompts = IF game_over THEN 1 ELSE 0
    /\ game.rows <= game.prompts
    /\ (pc = "save") => (game_over /\ game.rows = 0)

\* C14: in chess_engine.py a game that ends opens the save prompt exactly
\* once and a game that has not ended never opens it; K_RETURN in the prompt
\* inserts exactly one row, K_ESCAPE none, and a row is inserted in no other
\* way, so a game contributes at most one row and only after it has ended.
PromptOncePerGame ==
  /\ OnePromptPerEndedGame
  /\ [][/\ OnePromptPerEndedGame'
        /\ SaveReturn => (Len(results') = Len(results) + 1 /\ game'.rows = 1)
        /\ SaveEscape => (results' = results /\ game'.rows = 0)
        /\ results' # results => (pc = "save" /\ game_over)]_vars

\* a game ended in stalemate, its prompt was closed with K_ESCAPE: no row
StalemateNotSaved ==
  /\ variant = "engine" /\ pc = "main"
  /\ game_over
  /\ is_stalemate(chess_board)
  /\ game = [plies |-> 81, prompts |-> 1, rows |-> 0]
  /\ results = <<>>

\* the selection of chess.py and chess_rules_light.py is a cell of the grid
\* holding a piece of the side to move
GridSelectionIsMovers ==
  selected = None \/
    /\ selected \in Cells
    /\ board[selected[1]][selected[2]] # None
    /\ side_of(board[selected[1]][selected[2]]) = turn

\* the selection of chess_engine.py is one of the squares 0..63 holding a
\* piece of the side to move
EngineSelectionIsMovers ==
  selected_sq = None \/
    /\ selected_sq[1] \in SQUARES
    /\ chess_board.pieces[selected_sq[1]] # None
    /\ chess_board.pieces[selected_sq[1]][2] = chess_board.turn

\* C15 as stated: in all three variants the selection is empty or a square
\* that holds a piece of the side to move.  chess_engine.py breaks it: a
\* click in the label margin under the a-file selects square -8.
SelectionIsMoversPiece ==
  /\ variant \in {"naive", "light"} => GridSelectionIsMovers
  /\ variant = "engine" => EngineSelectionIsMovers

\* the two grid variants alone keep the selection on a piece of the mover
GridSelectionKept ==
  variant \in {"naive", "light"} => GridSelectionIsMovers

\* in chess_engine.py the selection is at least a number that piece_at reads
\* as a piece of the side to move
EngineSelectionReadsMovers ==
  (variant = "engine" /\ selected_sq # None) =>
    /\ ~piece_at_raises(selected_sq[1])
    /\ piece_at(chess_board, selected_sq[1]) # None
    /\ piece_at(chess_board, selected_sq[1])[2] = chess_board.turn

\* C16: in chess_engine.py, whenever the main loop waits for input,
\* legal_targets is empty when nothing is selected and otherwise is the set
\* of destinations of the legal moves of the current board that start on
\* selected_sq.
LegalTargetsMatchSelection ==
  (variant = "engine" /\ pc = "main") =>
    legal_targets =
      IF selected_sq = None THEN {}
      ELSE {m.to_square : m \in {mv \in legal_moves(chess_board) :
                                   mv.from_square = selected_sq[1]}}

\* after 1.f3 Black has selected the e-pawn: e6 and e5 are the targets
BlackPawnTargetsShown ==
  /\ variant = "engine" /\ pc = "main"
  /\ chess_board.move_stack = 1
  /\ selected_sq = <<52>>
  /\ legal_targets = {44, 36}

\* C17 as stated: K_r puts the game state back to its value at program
\* start, last_move included.  Lines 526-531 do not assign last_move, so the
\* highlight of the previous game's last move stays on the new board.
ResetRestoresStartState ==
  [][EngineReset =>
       /\ chess_board' = Board
       /\ selected_sq' = None
       /\ legal_targets' = {}
       /\ last_move' = None
       /\ game_over' = FALSE
       /\ left_banner' = "" /\ right_banner' = ""]_vars

\* what K_r does restore: everything of the start state but last_move
ResetRestoresAllButLastMove ==
  [][EngineReset =>
       /\ chess_board' = Board
       /\ selected_sq' = None
       /\ legal_targets' = {}
       /\ last_move' = last_move
       /\ game_over' = FALSE
       /\ left_banner' = "" /\ right_banner' = ""]_vars

\* a fresh board that still carries the last move of the game before
StaleLastMoveAfterReset ==
  /\ variant = "engine" /\ pc = "main"
  /\ chess_board = Board
  /\ game.plies = 0
  /\ last_move # None

====
